---- MODULE Spec2Model ----
(***************************************************************************)
(* Model of the weather dashboard's App component (src/unnamed/part_000):  *)
(* the debounced city search, the forecast loader, the geolocation flow    *)
(* and the favorites list, with the pure helpers they call.                *)
(*                                                                         *)
(* Conventions.                                                            *)
(*  - Coordinates are integers counting 10^-5 degree, so that toFixed(4)   *)
(*    really rounds: -23.55052 is -2355052 and prints as "-23.5505".       *)
(*  - A JavaScript string that the code only compares is a TLA+ string; a  *)
(*    string the code trims or measures is a sequence of one-character     *)
(*    strings.                                                             *)
(*  - JavaScript objects are compared by identity by React (Object.is) and *)
(*    by content nowhere; every place record carries a field ref naming    *)
(*    the object, which no code of the program reads.                      *)
(*  - null is the record NULL.                                             *)
(***************************************************************************)
EXTENDS Integers, Sequences, FiniteSets, TLC

\* ----------------------------------------------------------------- bounds
\* number of places the geocoding catalogue of the model holds
NumPlaces == 14
\* number of toggleFavorite calls in one behaviour
MaxToggles == 2
\* number of runs of the debounced-search effect (the mount run included)
MaxEffects == 4
\* number of forecast requests issued in one behaviour
MaxFetches == 3
\* number of presses of the "Localização" button in one behaviour
MaxLocates == 1
\* number of points the hourly arrays of a forecast snapshot hold
MaxHourly == 5
\* largest window size buildHourlySeries is called with, the default aside
MaxWindow == 3

\* ------------------------------------------------------ program constants
\* [p, ...prev].slice(0, 12)
MaxFavorites == 12
\* if (query.trim().length < 2)
MinQueryLen == 2
\* geocode(query, 6, "pt")
GeocodeCount == 6
\* function buildHourlySeries(data, nowISO, hours = 24, ...)
DefaultHours == 24

NULL == [null |-> TRUE]

Abs(x) == IF x < 0 THEN -x ELSE x

Min(a, b) == IF a < b THEN a ELSE b

\* Array.prototype.slice(0, n)
Slice0(s, n) == SubSeq(s, 1, Min(Len(s), n))

\* ----------------------------------------------------------------- places
\* Number.prototype.toFixed(4) of a coordinate given in 10^-5 degree: the
\* sign and the digits of the printed string. A negative number prints its
\* sign even when its digits are all zero ("-0.0000").
toFixed4(x) == [neg |-> x < 0, digits |-> (Abs(x) + 5) \div 10]

isSamePlaceById(a, b) ==
    IF a = NULL \/ b = NULL THEN FALSE
    ELSE a.id = b.id

isSamePlace(a, b) ==
    IF a = NULL \/ b = NULL THEN FALSE
    ELSE LET keyA == <<toFixed4(a.latitude), toFixed4(a.longitude)>>
             keyB == <<toFixed4(b.latitude), toFixed4(b.longitude)>>
         IN  keyA = keyB

\* The places of the model's geocoding catalogue. Latitudes step by 6e-5
\* degree, so that neighbours sometimes print the same 4 decimals (places 2
\* and 3 are the same place under isSamePlace, places 5 and 6 differ in the
\* longitude only) and no coordinate lies on a rounding tie.
CatLatitude(i) == -(2355002 + 6 * (i - 1))

CatLongitude(i) == -(4663332 + 10 * (IF i <= 3 THEN 0 ELSE i % 2))

CatPlace(i) ==
    [id |-> <<"geo", i>>, name |-> "city", admin1 |-> "state",
     country |-> "country", latitude |-> CatLatitude(i),
     longitude |-> CatLongitude(i), timezone |-> "America/Sao_Paulo",
     ref |-> <<"fav", i>>]

Places == {CatPlace(i) : i \in 1..NumPlaces}

\* setPlace({ id: "default-sp", ... })
DefaultPlace ==
    [id |-> <<"default-sp">>, name |-> "São Paulo", admin1 |-> "SP",
     country |-> "Brasil", latitude |-> -2355050, longitude |-> -4663330,
     timezone |-> "America/Sao_Paulo", ref |-> <<"default", 0>>]

\* -------------------------------------------------------------- favorites
some(list, p) == \E i \in 1..Len(list) : isSamePlace(list[i], p)

\* const isFavorite = useMemo(() => favorites.some(f => isSamePlace(f, place)))
isFavoriteOf(favs, p) == some(favs, p)

filterOut(list, p) == SelectSeq(list, LAMBDA f : ~isSamePlace(f, p))

toggleNoSlice(prev, p) ==
    IF p = NULL THEN prev
    ELSE IF some(prev, p) THEN filterOut(prev, p)
    ELSE <<p>> \o prev

toggleKeepsEqual(prev, p) ==
    IF p = NULL THEN prev
    ELSE IF some(prev, p) THEN SelectSeq(prev, LAMBDA f : isSamePlace(f, p))
    ELSE Slice0(<<p>> \o prev, MaxFavorites)

toggleAppend(prev, p) ==
    IF p = NULL THEN prev
    ELSE IF some(prev, p) THEN filterOut(prev, p)
    ELSE Slice0(prev \o <<p>>, MaxFavorites)

toggleById(prev, p) ==
    IF p = NULL THEN prev
    ELSE IF \E i \in 1..Len(prev) : isSamePlaceById(prev[i], p)
         THEN SelectSeq(prev, LAMBDA f : ~isSamePlaceById(f, p))
    ELSE Slice0(<<p>> \o prev, MaxFavorites)

\* the updater function toggleFavorite hands to setFavorites
toggleFavorite(prev, p) ==
    IF p = NULL THEN prev
    ELSE IF some(prev, p) THEN filterOut(prev, p)
    ELSE Slice0(<<p>> \o prev, MaxFavorites)

\* ------------------------------------------------------------------ state
VARIABLES
    mounted,      \* the first commit's effects have run
    unit,         \* settings.unit
    query,        \* useState("")
    suggestions,  \* useState([])
    isSearching,  \* useState(false)
    favorites,    \* useState(() => loadLS(favorites, []))
    place,        \* useState(() => loadLS(lastPlace, null))
    loading,      \* useState(false)
    error,        \* useState(null)
    forecast,     \* useState(null)
    effects,      \* one record per run of the debounced-search effect: its
                  \* closure (query, alive), its timer, and its request:
                  \* not sent, in flight, answered and applied, or answered
                  \* and dropped by the alive check
    geoLog,       \* the geocoding requests sent, in order
    fetches,      \* forecast requests in flight (indices into fetchLog)
    fetchLog,     \* the forecast requests sent, in order
    lastCompleted,\* the forecast request answered last, and how
    locates,      \* one record per run of locateMe: where it is suspended
    calls,        \* the toggleFavorite calls made: argument and list before
    call,         \* a call of a helper function on its own: name, arguments
    result        \* what that call returned

vars == <<mounted, unit, query, suggestions, isSearching, favorites, place,
          loading, error, forecast, effects, geoLog, fetches, fetchLog,
          lastCompleted, locates, calls, call, result>>

searchVars == <<query, suggestions, isSearching, effects, geoLog>>

forecastVars == <<loading, error, forecast, fetches, fetchLog, lastCompleted>>

\* ----------------------------------------------------------- search flow
\* String.prototype.trim on a sequence of characters
RECURSIVE trimStart(_)
trimStart(s) == IF s # <<>> /\ Head(s) = " " THEN trimStart(Tail(s)) ELSE s

RECURSIVE trimEnd(_)
trimEnd(s) ==
    IF s # <<>> /\ s[Len(s)] = " " THEN trimEnd(SubSeq(s, 1, Len(s) - 1)) ELSE s

trim(s) == trimEnd(trimStart(s))

\* what the user can have in the search box
Queries ==
    { <<>>, <<" ", "r", " ">>, <<"r", "e">>, <<"r", "e", " ">>,
      <<"r", "e", "c">> }

tooShortBelowOne(q) == Len(trim(q)) < 1

\* if (query.trim().length < 2)
tooShort(q) == Len(trim(q)) < MinQueryLen

cleanupKeepsTimer(effs) ==
    IF effs = <<>> \/ tooShort(effs[Len(effs)].query) THEN effs
    ELSE [effs EXCEPT ![Len(effs)] = [@ EXCEPT !.alive = FALSE]]

\* return () => { alive = false; clearTimeout(t); }: the cleanup of the last
\* run of the effect, which exists only when that run got past the early
\* return. clearTimeout of a timer that already fired does nothing.
cleanup(effs) ==
    IF effs = <<>> \/ tooShort(effs[Len(effs)].query) THEN effs
    ELSE [effs EXCEPT ![Len(effs)] =
            [@ EXCEPT !.alive = FALSE,
                      !.timer = IF @ = "pending" THEN "cleared" ELSE @]]

\* One run of the debounced-search effect for the new query q, after the
\* cleanup of the previous run. sugg is the suggestions list the same batch
\* of updates has already set.
SearchEffect(q, sugg) ==
    /\ query' = q
    /\ IF tooShort(q)
       THEN /\ suggestions' = <<>>
            /\ isSearching' = FALSE
            /\ effects' = Append(cleanup(effects),
                 [query |-> q, alive |-> TRUE, timer |-> "none", req |-> "none",
                  ans |-> NULL, out |-> NULL])
       ELSE /\ suggestions' = sugg
            /\ isSearching' = TRUE
            /\ effects' = Append(cleanup(effects),
                 [query |-> q, alive |-> TRUE, timer |-> "pending",
                  req |-> "none", ans |-> NULL, out |-> NULL])

\* setQuery(q): the effect runs only when the value changed
SetQuery(q, sugg) ==
    IF q = query
    THEN /\ suggestions' = sugg
         /\ UNCHANGED <<query, isSearching, effects>>
    ELSE SearchEffect(q, sugg)

\* the URL parameters geocode builds
geocodeRequest(q) ==
    [name |-> trim(q), count |-> GeocodeCount, language |-> "pt"]

\* onChange={(e) => setQuery(e.target.value)}
ChangeQuery(q) ==
    /\ mounted
    /\ q # query
    /\ Len(effects) < MaxEffects
    /\ SetQuery(q, suggestions)
    /\ UNCHANGED <<mounted, unit, favorites, place, geoLog, locates, calls, call, result>>
    /\ UNCHANGED forecastVars

\* the setTimeout callback starts: geocode(query, 6, "pt") sends its request
TimerFire(i) ==
    /\ effects[i].timer = "pending"
    /\ effects' = [effects EXCEPT ![i] =
                     [@ EXCEPT !.timer = "fired", !.req = "inflight"]]
    /\ geoLog' = Append(geoLog,
                   [request |-> geocodeRequest(effects[i].query),
                    effect |-> i, latest |-> Len(effects)])
    /\ UNCHANGED <<mounted, unit, query, suggestions, isSearching, favorites,
                   place, locates, calls, call, result>>
    /\ UNCHANGED forecastVars

\* What the geocoding API can answer: the catalogue places its results array
\* holds (data.results is absent when nothing matches).
GeoResults == { <<>>, <<1>>, <<2, 3>> }

\* what can go wrong with a fetch: fetchJson's HTTP error, fetch's TypeError
FetchFailures == {"HTTP 500", "Failed to fetch"}

\* the JavaScript value undefined, where the model has a string
UNDEFINED == "undefined"

\* The record the API returns for catalogue place i. The API leaves out
\* fields it has no value for: place 1 comes without timezone, place 3
\* without id (the empty tuple).
rawPlace(i) ==
    [id |-> IF i = 3 THEN <<>> ELSE <<"geo", i>>, name |-> "city",
     admin1 |-> "state", country |-> "country", latitude |-> CatLatitude(i),
     longitude |-> CatLongitude(i),
     timezone |-> IF i = 1 THEN UNDEFINED ELSE "America/Sao_Paulo"]

\* normalizePlace(p) of a non-null record; an absent id is the empty tuple.
\* obj names the object the call creates.
normalizePlace(p, obj) ==
    [id |-> IF p.id = <<>> THEN <<"coord", p.latitude, p.longitude>> ELSE p.id,
     name |-> p.name, admin1 |-> p.admin1, country |-> p.country,
     latitude |-> p.latitude, longitude |-> p.longitude,
     timezone |-> p.timezone, ref |-> obj]

\* (data?.results || []).map(normalizePlace), for the request of effect i
geocodeResult(res, i) ==
    [k \in 1..Len(res) |-> normalizePlace(rawPlace(res[k]), <<"geo", i>>)]

\* the answers of the geocoding boundary: a 2xx response with results, or a
\* failure
okAnswer(res) == [ok |-> TRUE, raw |-> "", results |-> res]

failedAnswer(raw) == [ok |-> FALSE, raw |-> raw, results |-> <<>>]

\* How a promise settles: fulfilled with value, or rejected with error.
\* fetchJson rejects when fetch does and throws when res.ok is false.
fetchJson(ans) ==
    IF ans.ok THEN [threw |-> FALSE, error |-> "", value |-> ans.results]
    ELSE [threw |-> TRUE, error |-> ans.raw, value |-> <<>>]

geocodeSwallows(ans, i) ==
    LET data == fetchJson(ans)
    IN  [threw |-> FALSE, error |-> "",
         value |-> IF data.threw THEN <<>> ELSE geocodeResult(data.value, i)]

\* geocode, called by effect i: const data = await fetchJson(url) has no
\* try around it, so a failure of fetchJson is a failure of geocode
geocode(ans, i) ==
    LET data == fetchJson(ans)
    IN  IF data.threw THEN data
        ELSE [threw |-> FALSE, error |-> "",
              value |-> geocodeResult(data.value, i)]

aliveAlways(e) == TRUE

\* the closure variable alive, as the callback reads it: if (!alive) return
alive(e) == e.alive

\* The setTimeout callback of effect i after await geocode(...) settled as
\* out, for the answer ans of the boundary: try { setSuggestions(res) }
\* catch { setSuggestions([]) } finally { setIsSearching(false) }, each
\* behind if (!alive) return
searchCallback(i, ans, out) ==
    /\ effects[i].req = "inflight"
    /\ IF alive(effects[i])
       THEN /\ suggestions' = IF out.threw THEN <<>> ELSE out.value
            /\ isSearching' = FALSE
            /\ effects' = [effects EXCEPT ![i] =
                 [@ EXCEPT !.req = "applied", !.ans = ans, !.out = out]]
       ELSE /\ UNCHANGED <<suggestions, isSearching>>
            /\ effects' = [effects EXCEPT ![i] =
                 [@ EXCEPT !.req = "dropped", !.ans = ans, !.out = out]]
    /\ UNCHANGED <<mounted, unit, query, favorites, place, geoLog, locates,
                   calls, call, result>>
    /\ UNCHANGED forecastVars

\* geocode resolves with the results res
GeocodeResolve(i, res) ==
    searchCallback(i, okAnswer(res), geocode(okAnswer(res), i))

\* the geocoding request fails (fetch failed or HTTP status not ok)
GeocodeReject(i, raw) ==
    searchCallback(i, failedAnswer(raw), geocode(failedAnswer(raw), i))

\* --------------------------------------------------------- forecast flow
Units == {"metric", "imperial"}

\* the URL parameters fetchForecast builds: place.timezone || "auto"
fetchForecast(p, u) ==
    [latitude |-> p.latitude, longitude |-> p.longitude,
     timezone |-> IF p.timezone \in {"", UNDEFINED} THEN "auto"
                  ELSE p.timezone,
     temperature_unit |-> IF u = "imperial" THEN "fahrenheit" ELSE "celsius",
     wind_speed_unit |-> IF u = "imperial" THEN "mph" ELSE "kmh"]

\* the snapshot the forecast API answers a request with
snapshot(req) == [of |-> req]

forecastError(raw) ==
    [title |-> "Não consegui carregar a previsão", raw |-> raw]

locationError(raw) ==
    [title |-> "Não consegui acessar sua localização", raw |-> raw]

\* loadForecast(nextPlace) up to its await, with the unit of the render
\* whose closure it is
loadForecast(nextPlace, u) ==
    IF nextPlace = NULL
    THEN UNCHANGED forecastVars
    ELSE /\ error' = NULL
         /\ loading' = TRUE
         /\ fetchLog' = Append(fetchLog, fetchForecast(nextPlace, u))
         /\ fetches' = fetches \cup {Len(fetchLog) + 1}
         /\ UNCHANGED <<forecast, lastCompleted>>

reloadAlways(p, u) ==
    /\ place' = p
    /\ unit' = u
    /\ loadForecast(p, u)

\* A commit that sets place to p and unit to u: useEffect(..., [place, unit])
\* runs when one of the two changed (React compares with Object.is)
reloadEffect(p, u) ==
    /\ place' = p
    /\ unit' = u
    /\ IF p = place /\ u = unit
       THEN UNCHANGED forecastVars
       ELSE loadForecast(p, u)

\* whether that commit sends a forecast request
sends(p, u) == (p # place \/ u # unit) /\ p # NULL

mountPlaceNoDefault(p) == p

\* useEffect(() => { if (!place) setPlace({ id: "default-sp", ... }) }, []):
\* the current place once the effects of the first commit have run
mountPlace(p) == IF p = NULL THEN DefaultPlace ELSE p

\* The first commit. Its effects run in the order of the source: the search
\* effect (query is ""), the forecast effect, the default-place effect, whose
\* setPlace commits again and runs the forecast effect for the default place.
Mount ==
    /\ ~mounted
    /\ mounted' = TRUE
    /\ SearchEffect(query, suggestions)
    /\ place' = mountPlace(place)
    /\ loadForecast(mountPlace(place), unit)
    /\ UNCHANGED <<unit, favorites, geoLog, locates, calls, call, result>>

\* onClick of a suggestion: onPick(s) is setPlace(s); setSuggestions([]),
\* then setQuery(""). The list is shown only for a query of 2 or more
\* characters.
PickSuggestion(k) ==
    /\ mounted
    /\ k \in 1..Len(suggestions)
    /\ Len(trim(query)) > 1
    /\ Len(effects) < MaxEffects
    /\ Len(fetchLog) < MaxFetches
    /\ SetQuery(<<>>, <<>>)
    /\ reloadEffect(suggestions[k], unit)
    /\ UNCHANGED <<mounted, favorites, geoLog, locates, calls, call, result>>

\* onClick of a favorite chip: setPlace(p)
PickFavorite(k) ==
    /\ mounted
    /\ k \in 1..Len(favorites)
    /\ sends(favorites[k], unit) => Len(fetchLog) < MaxFetches
    /\ reloadEffect(favorites[k], unit)
    /\ UNCHANGED <<mounted, favorites, locates, calls, call, result>>
    /\ UNCHANGED searchVars

\* setUnit(u): setSettings(s => ({ ...s, unit: u }))
SetUnit(u) ==
    /\ mounted
    /\ sends(place, u) => Len(fetchLog) < MaxFetches
    /\ reloadEffect(place, u)
    /\ UNCHANGED <<mounted, favorites, locates, calls, call, result>>
    /\ UNCHANGED searchVars

\* onRetry of the error card: if (place) loadForecast(place)
Retry ==
    /\ mounted
    /\ error # NULL
    /\ Len(fetchLog) < MaxFetches
    /\ loadForecast(place, unit)
    /\ UNCHANGED <<mounted, unit, favorites, place, locates, calls, call, result>>
    /\ UNCHANGED searchVars

applyIfCurrent(id) ==
    IF fetchLog[id] = fetchForecast(place, unit)
    THEN forecast' = snapshot(fetchLog[id])
    ELSE forecast' = forecast

\* setForecast(data)
applyForecast(id) == forecast' = snapshot(fetchLog[id])

\* fetchForecast resolves: the rest of loadForecast's try, then its finally
ForecastResolve(id) ==
    /\ id \in fetches
    /\ fetches' = fetches \ {id}
    /\ applyForecast(id)
    /\ loading' = FALSE
    /\ lastCompleted' = [id |-> id, ok |-> TRUE]
    /\ UNCHANGED <<mounted, unit, favorites, place, error, fetchLog, locates,
                   calls, call, result>>
    /\ UNCHANGED searchVars

failKeepsForecast(raw) ==
    /\ forecast' = forecast
    /\ error' = forecastError(raw)

\* the catch branch of loadForecast
failForecast(raw) ==
    /\ forecast' = NULL
    /\ error' = forecastError(raw)

\* fetchForecast rejects: loadForecast's catch, then its finally
ForecastReject(id, raw) ==
    /\ id \in fetches
    /\ fetches' = fetches \ {id}
    /\ failForecast(raw)
    /\ loading' = FALSE
    /\ lastCompleted' = [id |-> id, ok |-> FALSE]
    /\ UNCHANGED <<mounted, unit, favorites, place, fetchLog, locates, calls, call, result>>
    /\ UNCHANGED searchVars

\* ------------------------------------------------------ geolocation flow
\* the positions the browser can report, in 10^-5 degree
Positions == { <<CatLatitude(1), CatLongitude(1)>> }

\* the place reverseGeocodeOSM builds for run k of locateMe
osmPlace(lat, lon, k) ==
    [id |-> <<"osm", lat, lon>>, name |-> "city", admin1 |-> "state",
     country |-> "country", latitude |-> lat, longitude |-> lon,
     timezone |-> "auto", ref |-> <<"osm", k>>]

\* const fallbackPlace = { id: `gps:${lat},${lon}`, ... }
fallbackPlace(lat, lon, k) ==
    [id |-> <<"gps", lat, lon>>, name |-> "Minha localização", admin1 |-> "",
     country |-> "", latitude |-> lat, longitude |-> lon,
     timezone |-> "auto", ref |-> <<"gps", k>>]

\* locateMe up to its first await
LocateMe ==
    /\ mounted
    /\ Len(locates) < MaxLocates
    /\ error' = NULL
    /\ loading' = TRUE
    /\ locates' = Append(locates, [stage |-> "position"])
    /\ UNCHANGED <<mounted, unit, favorites, place, forecast, fetches,
                   fetchLog, lastCompleted, calls, call, result>>
    /\ UNCHANGED searchVars

\* getCurrentPosition succeeds: locateMe goes on to await reverseGeocodeOSM
PositionOk(k, pos) ==
    /\ locates[k].stage = "position"
    /\ locates' = [locates EXCEPT ![k] =
                     [stage |-> "reverse", reverse |-> "none",
                      lat |-> pos[1], lon |-> pos[2]]]
    /\ UNCHANGED <<mounted, unit, favorites, place, calls, call, result>>
    /\ UNCHANGED searchVars
    /\ UNCHANGED forecastVars

\* getCurrentPosition fails (denied, unavailable, 12 s timeout): the outer
\* catch, then the finally
PositionFail(k) ==
    /\ locates[k].stage = "position"
    /\ locates' = [locates EXCEPT ![k] = [stage |-> "done", reverse |-> "none"]]
    /\ error' = locationError("User denied Geolocation")
    /\ loading' = FALSE
    /\ UNCHANGED <<mounted, unit, favorites, place, forecast, fetches,
                   fetchLog, lastCompleted, calls, call, result>>
    /\ UNCHANGED searchVars

\* The rest of locateMe once the reverse lookup has settled with place p:
\* setPlace(p); setQuery(""); setSuggestions([]); finally setLoading(false).
\* The updates are batched into one commit, whose effects then run: the
\* search effect when query changed, the forecast effect for the new place.
\* how tells the way the reverse lookup settled.
locateDone(k, p, how) ==
    /\ locates[k].stage = "reverse"
    /\ query # <<>> => Len(effects) < MaxEffects
    /\ Len(fetchLog) < MaxFetches
    /\ locates' = [locates EXCEPT ![k] = [@ EXCEPT !.stage = "done",
                                                   !.reverse = how]]
    /\ SetQuery(<<>>, <<>>)
    /\ place' = p
    /\ error' = NULL
    /\ loading' = TRUE
    /\ fetchLog' = Append(fetchLog, fetchForecast(p, unit))
    /\ fetches' = fetches \cup {Len(fetchLog) + 1}
    /\ UNCHANGED <<mounted, unit, favorites, forecast, lastCompleted, geoLog,
                   calls, call, result>>

\* reverseGeocodeOSM resolves
ReverseOk(k) ==
    /\ k \in 1..Len(locates)
    /\ locates[k].stage = "reverse"
    /\ locateDone(k, osmPlace(locates[k].lat, locates[k].lon, k), "ok")

ReverseFailSurfaces(k) ==
    /\ k \in 1..Len(locates)
    /\ locates[k].stage = "reverse"
    /\ locates' = [locates EXCEPT ![k] = [@ EXCEPT !.stage = "done",
                                                   !.reverse = "failed"]]
    /\ error' = locationError("HTTP 500")
    /\ loading' = FALSE
    /\ UNCHANGED <<mounted, unit, favorites, place, forecast, fetches,
                   fetchLog, lastCompleted, calls, call, result>>
    /\ UNCHANGED searchVars

\* reverseGeocodeOSM rejects: the inner catch sets the fallback place
ReverseFail(k) ==
    /\ k \in 1..Len(locates)
    /\ locates[k].stage = "reverse"
    /\ locateDone(k, fallbackPlace(locates[k].lat, locates[k].lon, k),
                  "failed")

\* --------------------------------------------------------------- favorites
\* toggleFavorite(p): setFavorites(prev => ...)
ToggleFavorite(p) ==
    /\ mounted
    /\ Len(calls) < MaxToggles
    /\ favorites' = toggleFavorite(favorites, p)
    /\ calls' = Append(calls, [p |-> p, before |-> favorites])
    /\ UNCHANGED <<mounted, unit, place, locates, call, result>>
    /\ UNCHANGED searchVars
    /\ UNCHANGED forecastVars

\* ------------------------------------------------------- helper functions
\* The coordinates the calls of isSamePlace are made with, in 10^-5 degree:
\* on both sides of zero and on both sides of a rounding boundary, none on a
\* rounding tie.
TestCoords == {-6, -4, -1, 1, 4, 6}

testPlace(n, la, lo) ==
    [id |-> <<"test", n>>, name |-> "city", admin1 |-> "state",
     country |-> "country", latitude |-> la, longitude |-> lo,
     timezone |-> "auto", ref |-> <<"test", n>>]

TestPlaces ==
    {testPlace(n, la, lo) : n \in 1..2, la \in TestCoords, lo \in TestCoords}

\* one call isSamePlace(a, b)
CallIsSamePlace(a, b) ==
    /\ call.op = "none"
    /\ call' = [op |-> "isSamePlace", a |-> a, b |-> b]
    /\ result' = isSamePlace(a, b)
    /\ UNCHANGED <<mounted, unit, favorites, place, locates, calls>>
    /\ UNCHANGED searchVars
    /\ UNCHANGED forecastVars

\* An hourly timestamp of the forecast API ("2024-01-01T22:00") is the pair
\* <<day, hour>>. new Date(iso).getTime(), counted in hours.
getTime(iso) == iso[1] * 24 + iso[2]

\* toLocaleTimeString(locale, { hour: "2-digit", minute: "2-digit" })
formatTimeLabel(iso) == <<iso[2], 0>>

\* the timestamp k hours after the first one of the hourly arrays
timeAt(k) == <<1 + (22 + k) \div 24, (22 + k) % 24>>

\* the hourly part of a forecast snapshot with len points
hourlyData(len) ==
    [time                      |-> [k \in 1..len |-> timeAt(k - 1)],
     temperature_2m            |-> [k \in 1..len |-> 20 + k],
     apparent_temperature      |-> [k \in 1..len |-> 18 + k],
     precipitation_probability |-> [k \in 1..len |-> 10 * k]]

\* the first loop of buildHourlySeries from index i on (indices count from
\* 0): the first i with t >= now, and startIdx keeps its 0 when the loop ends
\* without one
RECURSIVE scanFrom(_, _, _)
scanFrom(times, now, i) ==
    IF i >= Len(times) THEN 0
    ELSE IF getTime(times[i + 1]) >= now THEN i
    ELSE scanFrom(times, now, i + 1)

startIdxOrEnd(times, now) ==
    IF \E k \in 1..Len(times) : getTime(times[k]) >= now
    THEN scanFrom(times, now, 0)
    ELSE Len(times)

\* let startIdx = 0; for (let i = 0; i < times.length; i++) ...
startIdx(times, now) == scanFrom(times, now, 0)

\* out.push({ time, temp, feels, pop, iso }) for index i (counted from 0)
hourlyPoint(data, i) ==
    [time  |-> formatTimeLabel(data.time[i + 1]),
     temp  |-> data.temperature_2m[i + 1],
     feels |-> data.apparent_temperature[i + 1],
     pop   |-> data.precipitation_probability[i + 1],
     iso   |-> data.time[i + 1]]

\* buildHourlySeries(data, nowISO, hours) with now already read from nowISO
\* or from the clock
buildHourlySeries(data, now, hours) ==
    LET s    == startIdx(data.time, now)
        stop == Min(Len(data.time), s + hours)
    IN  [k \in 1..(IF stop > s THEN stop - s ELSE 0) |->
            hourlyPoint(data, s + k - 1)]

\* the reference instants of the calls: one hour before the first timestamp
\* up to one hour after the last one
Instants == {timeAt(k) : k \in (0 - 1)..MaxHourly}

\* one call buildHourlySeries(data, nowISO, hours); nowISO is <<>> when the
\* caller gives none, and then now is what Date.now() reads
CallBuildHourlySeries(len, nowISO, clock, hours) ==
    /\ call.op = "none"
    /\ nowISO # <<>> => clock = getTime(nowISO)
    /\ LET data == hourlyData(len)
           now  == IF nowISO # <<>> THEN getTime(nowISO) ELSE clock
       IN  /\ call' = [op |-> "buildHourlySeries", data |-> data,
                       nowISO |-> nowISO, now |-> now, hours |-> hours]
           /\ result' = buildHourlySeries(data, now, hours)
    /\ UNCHANGED <<mounted, unit, favorites, place, locates, calls>>
    /\ UNCHANGED searchVars
    /\ UNCHANGED forecastVars

\* ------------------------------------------------------- specifications
\* the value JSON.parse gives back for a stored place: a new object
stored(p) == [p EXCEPT !.ref = <<"ls", 0>>]

\* the catalogue places i..j, most recently added first
run(i, j) == [k \in 1..(j - i + 1) |-> CatPlace(j - k + 1)]

noDuplicates(list) ==
    \A i, j \in 1..Len(list) : i # j => ~isSamePlace(list[i], list[j])

\* The favorites lists the program can have stored: no two entries the same
\* place, at most 12 entries.
StoredFavorites ==
    { l \in { run(i, j) : i \in 1..(NumPlaces + 1), j \in 0..NumPlaces } :
        Len(l) <= MaxFavorites /\ noDuplicates(l) }

\* the state after the first render, for the values localStorage holds
InitWith(storedFavorites, storedPlaces, storedUnits) ==
    /\ mounted = FALSE
    /\ unit \in storedUnits
    /\ favorites \in storedFavorites
    /\ place \in storedPlaces
    /\ query = <<>>
    /\ suggestions = <<>>
    /\ isSearching = FALSE
    /\ loading = FALSE
    /\ error = NULL
    /\ forecast = NULL
    /\ effects = <<>>
    /\ geoLog = <<>>
    /\ fetches = {}
    /\ fetchLog = <<>>
    /\ lastCompleted = NULL
    /\ locates = <<>>
    /\ calls = <<>>
    /\ call = [op |-> "none"]
    /\ result = NULL

Init ==
    InitWith({run(4, 5)}, {NULL, stored(CatPlace(5))}, Units)

SearchStep ==
    \/ \E q \in Queries : ChangeQuery(q)
    \/ \E i \in 1..Len(effects) : TimerFire(i)
    \/ \E i \in 1..Len(effects), res \in GeoResults : GeocodeResolve(i, res)
    \/ \E i \in 1..Len(effects), raw \in FetchFailures : GeocodeReject(i, raw)
    \/ \E k \in 1..Len(suggestions) : PickSuggestion(k)

ForecastStep ==
    \/ \E u \in Units : SetUnit(u)
    \/ \E k \in 1..Len(favorites) : PickFavorite(k)
    \/ Retry
    \/ \E id \in fetches : ForecastResolve(id)
    \/ \E id \in fetches, raw \in FetchFailures : ForecastReject(id, raw)

LocateStep ==
    \/ LocateMe
    \/ \E k \in 1..Len(locates), pos \in Positions : PositionOk(k, pos)
    \/ \E k \in 1..Len(locates) : PositionFail(k)
    \/ \E k \in 1..Len(locates) : ReverseOk(k)
    \/ \E k \in 1..Len(locates) : ReverseFail(k)

FavoritesStep ==
    \E p \in Places \cup {NULL} : ToggleFavorite(p)

Next == Mount \/ SearchStep \/ ForecastStep \/ LocateStep \/ FavoritesStep

\* the whole application
Spec == Init /\ [][Next]_vars

\* the user only types in the search box and picks suggestions
InitSearch == InitWith({<<>>}, {NULL}, {"metric"})

NextSearch == Mount \/ SearchStep

SpecSearch == InitSearch /\ [][NextSearch]_vars

\* the user selects places and units, retries and asks for the location
NextForecast == Mount \/ ForecastStep \/ LocateStep

SpecForecast == Init /\ [][NextForecast]_vars

\* the user types in the search box, gets suggestions and asks for the
\* location
NextLocate ==
    \/ Mount
    \/ \E q \in Queries : ChangeQuery(q)
    \/ \E i \in 1..Len(effects) : TimerFire(i)
    \/ \E i \in 1..Len(effects), res \in GeoResults : GeocodeResolve(i, res)
    \/ LocateStep

SpecLocate == InitSearch /\ [][NextLocate]_vars

\* the user only toggles favorites
InitFavorites == InitWith(StoredFavorites, {NULL}, {"metric"})

NextFavorites == Mount \/ FavoritesStep

SpecFavorites == InitFavorites /\ [][NextFavorites]_vars

\* single calls of the helper functions
NextHelpers ==
    \/ \E a, b \in TestPlaces \cup {NULL} : CallIsSamePlace(a, b)
    \/ \E len \in 0..MaxHourly, nowISO \in Instants \cup {<<>>},
          clock \in {getTime(t) : t \in Instants},
          hours \in 0..MaxWindow \cup {DefaultHours} :
            CallBuildHourlySeries(len, nowISO, clock, hours)

SpecHelpers == InitSearch /\ [][NextHelpers]_vars

\* ------------------------------------------------------------- the claims
last(s) == s[Len(s)]

\* the favorites list after call n of toggleFavorite
after(n) == IF n = Len(calls) THEN favorites ELSE calls[n + 1].before

\* the favorites list the behaviour started from
original == IF calls = <<>> THEN favorites ELSE calls[1].before

\* the answer to the request of effect i arrives in this step
answered(i) == effects[i].req = "inflight" /\ effects'[i].req # "inflight"

\* C1: the answer to a geocoding request (success or failure) changes
\* suggestions or isSearching only when the run of the effect that sent it
\* is still the latest one, and then its query is the current query; the
\* answer to a superseded query changes neither.
C1_StaleAnswersDropped ==
    [][\A i \in 1..Len(effects) :
         answered(i) =>
            /\ i # Len(effects) =>
                 suggestions' = suggestions /\ isSearching' = isSearching
            /\ (suggestions' # suggestions \/ isSearching' # isSearching) =>
                 effects[i].query = query]_vars

\* a superseded request was answered while the latest one was still in
\* flight, and a later answer to the latest one filled the suggestions
C1_Witness ==
    \E i, j \in 1..Len(effects) :
        /\ i < j
        /\ j = Len(effects)
        /\ effects[i].req = "dropped"
        /\ effects[j].req = "applied"
        /\ suggestions # <<>>
        /\ ~isSearching

\* the entries of geoLog sent by run i of the effect
sentBy(i) == {n \in 1..Len(geoLog) : geoLog[n].effect = i}

\* C2: every geocoding request was sent by the run of the effect that was
\* the latest one at that moment, carries that run's query, and is the only
\* request of that run; a run whose query was replaced before its timer
\* elapsed sent none. So a burst of queries of 2 or more characters, each
\* replaced within the debounce window, sends one request, for the last.
C2_OneRequestPerBurst ==
    /\ \A n \in 1..Len(geoLog) :
          /\ geoLog[n].effect = geoLog[n].latest
          /\ geoLog[n].request.name = trim(effects[geoLog[n].effect].query)
    /\ \A i \in 1..Len(effects) :
          /\ Cardinality(sentBy(i)) <= 1
          /\ effects[i].timer = "fired" => Cardinality(sentBy(i)) = 1
          /\ effects[i].timer \in {"none", "pending", "cleared"} =>
                sentBy(i) = {}

\* three queries of 2 or more characters in a row, the first two replaced
\* before their timers elapsed: one request, for the third
C2_Witness ==
    /\ Len(effects) = 4
    /\ \A i \in 2..4 : Len(trim(effects[i].query)) >= 2
    /\ effects[2].timer = "cleared"
    /\ effects[3].timer = "cleared"
    /\ effects[4].timer = "fired"
    /\ Len(geoLog) = 1
    /\ geoLog[1].request.name = trim(query)

\* C3: a step that changes the query to one of trimmed length below 2
\* empties suggestions, resets isSearching and leaves no timer pending; and
\* no geocoding request is ever sent for such a query.
C3_ShortQueryClears ==
    /\ [](\A n \in 1..Len(geoLog) : Len(geoLog[n].request.name) >= 2)
    /\ [][(query' # query /\ Len(trim(query')) < 2) =>
            /\ suggestions' = <<>>
            /\ isSearching' = FALSE
            /\ \A i \in 1..Len(effects') : effects'[i].timer # "pending"
            /\ geoLog' = geoLog]_vars

\* the query went from 2 characters or more, its timer still pending, to a
\* single character between spaces
C3_Witness ==
    /\ Len(effects) >= 2
    /\ effects[Len(effects) - 1].timer = "cleared"
    /\ query = <<" ", "r", " ">>
    /\ suggestions = <<>>
    /\ ~isSearching

\* C4: forecast answers are applied in completion order with no guard: the
\* stored forecast is always the snapshot of the request answered last when
\* that one succeeded, and null when it failed, whatever the current place
\* and unit are.
C4_CompletionOrderWins ==
    IF lastCompleted = NULL
    THEN forecast = NULL
    ELSE forecast = IF lastCompleted.ok
                    THEN snapshot(fetchLog[lastCompleted.id])
                    ELSE NULL

\* no request is in flight, the request answered last was not the one sent
\* last, and the stored forecast is not the one of the current place and unit
C4_Witness ==
    /\ fetches = {}
    /\ place # NULL
    /\ forecast # NULL
    /\ lastCompleted # NULL
    /\ lastCompleted.id < Len(fetchLog)
    /\ forecast # snapshot(fetchForecast(place, unit))

\* C5: a step that changes the current place or the current unit, the place
\* being non-null afterwards, sends exactly one forecast request, built from
\* the place and unit current after the step (fahrenheit and mph when the
\* unit becomes imperial); a step that changes neither sends a request only
\* as the first load or as a retry from the error card, so selecting the
\* unit already selected sends none.
C5_OneFetchPerChange ==
    [][/\ ((place' # place \/ unit' # unit) /\ place' # NULL) =>
            /\ Len(fetchLog') = Len(fetchLog) + 1
            /\ SubSeq(fetchLog', 1, Len(fetchLog)) = fetchLog
            /\ last(fetchLog').latitude = place'.latitude
            /\ last(fetchLog').longitude = place'.longitude
            /\ last(fetchLog').temperature_unit =
                 (IF unit' = "imperial" THEN "fahrenheit" ELSE "celsius")
            /\ last(fetchLog').wind_speed_unit =
                 (IF unit' = "imperial" THEN "mph" ELSE "kmh")
       /\ (place' = place /\ unit' = unit /\ fetchLog' # fetchLog) =>
            (~mounted \/ error # NULL)]_vars

\* a place loaded in metric was switched to imperial: one more request, the
\* same but for fahrenheit and mph
C5_Witness ==
    /\ unit = "imperial"
    /\ Len(fetchLog) = 2
    /\ fetchLog[1].temperature_unit = "celsius"
    /\ forecast = snapshot(fetchLog[1])
    /\ fetchLog[2] = [fetchLog[1] EXCEPT !.temperature_unit = "fahrenheit",
                                         !.wind_speed_unit = "mph"]
    /\ fetches = {2}

\* a forecast request fails in this step
rejected == lastCompleted' # lastCompleted /\ ~lastCompleted'.ok

\* C6: the step in which a forecast request fails sets error, clears the
\* forecast to null, resets loading and sends no request; a request sent
\* with place and unit unchanged after the first load (the retry) is for the
\* current place and unit, and is sent only from the error card.
C6_LoadFailedThenRetry ==
    [][/\ rejected =>
            /\ error' # NULL
            /\ error'.title = "Não consegui carregar a previsão"
            /\ forecast' = NULL
            /\ loading' = FALSE
            /\ fetchLog' = fetchLog
       /\ (mounted /\ place' = place /\ unit' = unit /\ fetchLog' # fetchLog) =>
            /\ error # NULL
            /\ fetchLog' = Append(fetchLog, fetchForecast(place, unit))
            /\ error' = NULL
            /\ loading' = TRUE]_vars

\* the first load of the default place failed and the retry sent the same
\* request again
C6_Witness ==
    /\ place = DefaultPlace
    /\ lastCompleted = [id |-> 1, ok |-> FALSE]
    /\ Len(fetchLog) = 2
    /\ fetchLog[2] = fetchLog[1]
    /\ fetches = {2}
    /\ forecast = NULL
    /\ error = NULL
    /\ loading

\* C7: the favorites list never holds more than 12 entries, and a call that
\* toggles a place with no equal entry into a list of 12 puts it first and
\* drops the entry that was last.
C7_AtMostTwelve ==
    /\ Len(favorites) <= 12
    /\ \A n \in 1..Len(calls) :
          (/\ calls[n].p # NULL
           /\ Len(calls[n].before) = 12
           /\ ~some(calls[n].before, calls[n].p)) =>
             after(n) = <<calls[n].p>> \o SubSeq(calls[n].before, 1, 11)

\* a place was toggled into a full list
C7_Witness ==
    \E n \in 1..Len(calls) :
        /\ calls[n].p # NULL
        /\ Len(calls[n].before) = 12
        /\ ~some(calls[n].before, calls[n].p)
        /\ Len(after(n)) = 12
        /\ after(n)[1] = calls[n].p

\* C8 as stated: two calls of toggleFavorite in a row with the same place
\* leave the list as it was, contents and order.
C8_Original ==
    \A n \in 1..(Len(calls) - 1) :
        calls[n].p = calls[n + 1].p => after(n + 1) = calls[n].before

\* C8 amended: two calls in a row with the same place p restore whether p
\* is a favorite; they restore the list itself when no entry equals p and
\* the list holds fewer than 12 entries. When an entry equals p the result
\* is p followed by the other entries; when the list holds 12 entries, none
\* equal to p, the result is the list without its last entry.
C8_ToggleTwice ==
    \A n \in 1..(Len(calls) - 1) :
        LET p == calls[n].p
            before == calls[n].before
            others == SelectSeq(before, LAMBDA f : ~isSamePlace(f, p))
        IN  (p # NULL /\ calls[n + 1].p = p) =>
               /\ some(after(n + 1), p) <=> some(before, p)
               /\ (~some(before, p) /\ Len(before) < 12) =>
                     after(n + 1) = before
               /\ some(before, p) => after(n + 1) = <<p>> \o others
               /\ (~some(before, p) /\ Len(before) = 12) =>
                     after(n + 1) = SubSeq(before, 1, 11)

\* a place with no equal entry was toggled twice into a list that is neither
\* empty nor full
C8_Witness ==
    \E n \in 1..(Len(calls) - 1) :
        /\ calls[n].p # NULL
        /\ calls[n + 1].p = calls[n].p
        /\ ~some(calls[n].before, calls[n].p)
        /\ Len(calls[n].before) \in 1..11
        /\ after(n) # calls[n].before
        /\ after(n + 1) = calls[n].before

\* C9: starting from the empty list, no two entries of the favorites list
\* are the same place under isSamePlace.
C9_NoDuplicates ==
    original = <<>> =>
        \A i, j \in 1..Len(favorites) :
            i # j => ~isSamePlace(favorites[i], favorites[j])

\* from the empty list, a place was added and then a different object for
\* the same place was toggled: the list is empty again, not a list of two
C9_Witness ==
    /\ original = <<>>
    /\ Len(calls) = 2
    /\ calls[1].p # NULL
    /\ calls[2].p # NULL
    /\ calls[1].p # calls[2].p
    /\ isSamePlace(calls[1].p, calls[2].p)
    /\ favorites = <<>>

\* C10: a call of toggleFavorite with a non-null place p removes every entry
\* equal to p, keeping the others in order, when there is one; otherwise it
\* gives p followed by the previous entries, cut to the first 12. Whether p
\* is a favorite is negated by the call.
C10_ToggleResult ==
    \A n \in 1..Len(calls) :
        LET p == calls[n].p
            before == calls[n].before
            others == SelectSeq(before, LAMBDA f : ~isSamePlace(f, p))
            added == <<p>> \o before
        IN  p # NULL =>
               /\ after(n) = IF \E i \in 1..Len(before) : isSamePlace(before[i], p)
                             THEN others
                             ELSE SubSeq(added, 1, Min(12, Len(added)))
               /\ isFavoriteOf(after(n), p) = ~isFavoriteOf(before, p)

\* one call removed an entry from the middle of the list, another added a
\* place in front
C10_Witness ==
    /\ Len(calls) = 2
    /\ calls[1].p # NULL
    /\ calls[2].p # NULL
    /\ Len(calls[1].before) >= 3
    /\ isSamePlace(calls[1].before[2], calls[1].p)
    /\ Len(after(1)) = Len(calls[1].before) - 1
    /\ ~some(calls[2].before, calls[2].p)
    /\ favorites = <<calls[2].p>> \o calls[2].before


\* a coordinate in 10^-5 degree rounded to 4 decimals: the nearest multiple
\* of 10^-4 degree, as a number (the coordinates used lie on no tie)
round4(x) == IF x < 0 THEN 0 - ((Abs(x) + 5) \div 10) ELSE (x + 5) \div 10

\* C11: for non-null places a and b, isSamePlace(a, b) is true exactly when
\* the latitudes round to the same 4-decimal value and the longitudes round
\* to the same 4-decimal value, whatever the ids; with a null argument it is
\* false.
C11_SamePlaceIffRounded ==
    call.op = "isSamePlace" =>
        IF call.a = NULL \/ call.b = NULL THEN result = FALSE
        ELSE result <=>
               /\ round4(call.a.latitude) = round4(call.b.latitude)
               /\ round4(call.a.longitude) = round4(call.b.longitude)

\* C12: while the current place is null the application is not mounted and
\* has sent no request of any kind; the step that leaves the null place (the
\* first commit with nothing stored) makes São Paulo the current place and
\* sends, as the first forecast request, the one for São Paulo, with no
\* geocoding request; and every step that sends a forecast request ends with
\* a non-null current place, which the request is for.
C12_DefaultPlaceFirst ==
    /\ [](place = NULL =>
            /\ ~mounted
            /\ fetchLog = <<>> /\ fetches = {}
            /\ geoLog = <<>> /\ locates = <<>>)
    /\ [][/\ place = NULL =>
               /\ place' = DefaultPlace
               /\ fetchLog' = <<fetchForecast(DefaultPlace, unit')>>
               /\ geoLog' = <<>> /\ locates' = <<>>
          /\ fetchLog' # fetchLog =>
               /\ place' # NULL
               /\ last(fetchLog') = fetchForecast(place', unit')]_vars

\* started with nothing stored: mounted, São Paulo current, and the only
\* request sent so far is the forecast request for São Paulo
C12_Witness ==
    /\ mounted
    /\ place = DefaultPlace
    /\ place.name = "São Paulo"
    /\ fetchLog = <<fetchForecast(DefaultPlace, unit)>>
    /\ fetches = {1}
    /\ geoLog = <<>>
    /\ locates = <<>>

\* the index (counted from 0) the series has to start at
firstAtOrAfter(times, now) ==
    IF \E k \in 1..Len(times) : getTime(times[k]) >= now
    THEN (CHOOSE k \in 1..Len(times) :
            /\ getTime(times[k]) >= now
            /\ \A j \in 1..(k - 1) : getTime(times[j]) < now) - 1
    ELSE 0

\* C13: buildHourlySeries returns the points of the consecutive indices from
\* s on, in the order of the time array, where s is the first index whose
\* timestamp is at or after the reference instant and 0 when there is none;
\* the result has min(windowSize, len(time) - s) points.
C13_SeriesFromFirstAtOrAfter ==
    call.op = "buildHourlySeries" =>
        LET times == call.data.time
            s     == firstAtOrAfter(times, call.now)
        IN  /\ Len(result) = Min(call.hours, Len(times) - s)
            /\ \A k \in 1..Len(result) :
                 /\ result[k].iso = times[s + k]
                 /\ result[k].time = <<times[s + k][2], 0>>
                 /\ result[k].temp = call.data.temperature_2m[s + k]
                 /\ result[k].feels = call.data.apparent_temperature[s + k]
                 /\ result[k].pop = call.data.precipitation_probability[s + k]

\* a call whose reference instant lies after every timestamp returned a
\* non-empty series that starts with the first point
C13_Witness ==
    /\ call.op = "buildHourlySeries"
    /\ call.data.time # <<>>
    /\ \A k \in 1..Len(call.data.time) : getTime(call.data.time[k]) < call.now
    /\ result # <<>>
    /\ result[1].iso = call.data.time[1]
    /\ Len(result) = Min(call.hours, Len(call.data.time))

\* C14 as stated: whenever the geocoding boundary answered a request with a
\* failure (network error or non-2xx), geocode returned the empty sequence
\* to its caller and did not throw.
C14_Original ==
    \A i \in 1..Len(effects) :
        (effects[i].ans # NULL /\ ~effects[i].ans.ok) =>
            /\ ~effects[i].out.threw
            /\ effects[i].out.value = <<>>

\* C14 amended: geocode throws the failure of the boundary to its caller
\* (and returns one place per result otherwise); the caller, the callback of
\* the debounced search effect, swallows it: when its run of the effect is
\* still the latest one it sets suggestions to the empty sequence and
\* isSearching to false, otherwise it changes neither, and in both cases
\* error is left as it was.
C14_SearchErrorSwallowed ==
    /\ [](\A i \in 1..Len(effects) :
            effects[i].ans # NULL =>
                IF effects[i].ans.ok
                THEN /\ ~effects[i].out.threw
                     /\ Len(effects[i].out.value) = Len(effects[i].ans.results)
                ELSE /\ effects[i].out.threw
                     /\ effects[i].out.error = effects[i].ans.raw)
    /\ [][\A i \in 1..Len(effects) :
            (answered(i) /\ ~effects'[i].ans.ok) =>
                /\ error' = error
                /\ IF effects[i].alive
                   THEN suggestions' = <<>> /\ isSearching' = FALSE
                   ELSE suggestions' = suggestions /\ isSearching' = isSearching]_vars

\* suggestions of an earlier query were on display, the request of the
\* current query failed with HTTP 500, and the list is empty, the spinner
\* off and no error set
C14_Witness ==
    \E i, j \in 1..Len(effects) :
        /\ j < i
        /\ i = Len(effects)
        /\ effects[j].req = "applied"
        /\ effects[j].ans.ok
        /\ effects[j].out.value # <<>>
        /\ effects[i].req = "applied"
        /\ effects[i].ans = failedAnswer("HTTP 500")
        /\ effects[i].out.threw
        /\ suggestions = <<>>
        /\ ~isSearching
        /\ error = NULL

\* C15: the step in which the reverse lookup of a located position
\* (lat, lon) settles makes a place with exactly lat and lon the current
\* place, sets error to null and empties query and suggestions, whether the
\* lookup succeeded or failed; after a failure the place is the synthesized
\* one, "Minha localização" with empty admin1 and country and timezone "auto".
C15_LocatedPlaceAlwaysSet ==
    [][\A k \in 1..Len(locates) :
         (locates[k].stage = "reverse" /\ locates'[k].stage = "done") =>
            /\ place' # place
            /\ place'.latitude = locates[k].lat
            /\ place'.longitude = locates[k].lon
            /\ error' = NULL
            /\ query' = <<>>
            /\ suggestions' = <<>>
            /\ last(fetchLog') = fetchForecast(place', unit)
            /\ locates'[k].reverse \in {"ok", "failed"}
            /\ locates'[k].reverse = "failed" =>
                 /\ place'.name = "Minha localização"
                 /\ place'.admin1 = "" /\ place'.country = ""
                 /\ place'.timezone = "auto"
                 /\ place'.id = <<"gps", locates[k].lat, locates[k].lon>>]_vars

\* the user searched "rec", got suggestions applied, asked for the location,
\* and the reverse lookup failed: the synthesized place is current, with no
\* error, and the search box was emptied
C15_Witness ==
    /\ locates # <<>>
    /\ locates[1].stage = "done"
    /\ locates[1].reverse = "failed"
    /\ place = fallbackPlace(locates[1].lat, locates[1].lon, 1)
    /\ error = NULL
    /\ query = <<>>
    /\ suggestions = <<>>
    /\ Len(effects) >= 2
    /\ effects[Len(effects) - 1].query = <<"r", "e", "c">>
    /\ effects[Len(effects) - 1].req = "applied"

\* C16: every entry of suggestions has an id (the one synthesized from its
\* coordinates when the API gave none), a latitude in [-90, 90], a longitude
\* in [-180, 180] and a timezone that is a string, whatever records the
\* geocoding API returned.
C16_SuggestionsArePlaces ==
    \A k \in 1..Len(suggestions) :
        LET s == suggestions[k]
        IN  /\ s.id # <<>>
            /\ s.id[1] = "coord" => s.id = <<"coord", s.latitude, s.longitude>>
            /\ Abs(s.latitude) <= 90 * 100000
            /\ Abs(s.longitude) <= 180 * 100000
            /\ s.timezone # UNDEFINED

\* C17: in every state with no forecast request in flight whose last
\* answered request succeeded, and with no geolocation attempt made, error
\* is null and forecast is the data of that request.
C17_LastSuccessShown ==
    (/\ fetches = {}
     /\ lastCompleted # NULL
     /\ lastCompleted.ok
     /\ locates = <<>>) =>
        /\ error = NULL
        /\ forecast = snapshot(fetchLog[lastCompleted.id])

\* C18: loading is true in every state with a forecast request in flight,
\* and false in every state of the mounted application in which every
\* forecast request has been answered and every geolocation attempt has
\* ended.
C18_LoadingWhileInFlight ==
    /\ fetches # {} => loading
    /\ (/\ mounted
        /\ fetches = {}
        /\ \A k \in 1..Len(locates) : locates[k].stage = "done") => ~loading

====
